---------------------------- MODULE Spec2Model ----------------------------
(***************************************************************************)
(* Model of sfdx-bulk-helper.js (latest revision, lines 202-421): the      *)
(* SalesforceDX client that shells out to the sfdx CLI.  Strings are       *)
(* sequences of one-character strings so that indexOf, concatenation and   *)
(* the shell's word splitting are computed as the code computes them.      *)
(* Every public call runs as a chain of event-loop tasks: tmp.file         *)
(* callbacks, exec callbacks and 10 second timers.  One action is one      *)
(* task together with the promise reactions it triggers.                   *)
(***************************************************************************)
EXTENDS Integers, Sequences, FiniteSets, TLC

(***************************************************************************)
(* Bounds                                                                  *)
(***************************************************************************)
MaxPolls == 2
MaxBatches == 2
MaxRecords == 2

(***************************************************************************)
(* String literals of the source                                           *)
(***************************************************************************)
S_sfdx == <<"s", "f", "d", "x", " ">>
S_json == <<" ", "-", "-", "j", "s", "o", "n">>
S_u == <<"-", "u", " ">>
S_targetusername == <<"-", "-", "t", "a", "r", "g", "e", "t", "u", "s", "e", "r", "n", "a", "m", "e", " ">>
S_addTargetusername == <<" ", "-", "-", "t", "a", "r", "g", "e", "t", "u", "s", "e", "r", "n", "a", "m", "e", " ">>
S_redirect == <<" ", ">", " ">>
S_upsert == <<"f", "o", "r", "c", "e", ":", "d", "a", "t", "a", ":", "b", "u", "l", "k", ":", "u", "p", "s", "e", "r", "t", " ", "-", "s", " ">>
S_delete == <<"f", "o", "r", "c", "e", ":", "d", "a", "t", "a", ":", "b", "u", "l", "k", ":", "d", "e", "l", "e", "t", "e", " ", "-", "s", " ">>
S_f == <<" ", "-", "f", " ">>
S_i == <<" ", "-", "i", " ">>
S_status == <<"f", "o", "r", "c", "e", ":", "d", "a", "t", "a", ":", "b", "u", "l", "k", ":", "s", "t", "a", "t", "u", "s", " ", "-", "-", "j", "o", "b", "i", "d", " ">>
S_query == <<"f", "o", "r", "c", "e", ":", "d", "a", "t", "a", ":", "s", "o", "q", "l", ":", "q", "u", "e", "r", "y", " ", "-", "q", " ", "\"">>
S_quote == <<"\"">>
S_t == <<" ", "-", "t">>
S_select == <<"S", "E", "L", "E", "C", "T", " ", "I", "d", " ", "F", "R", "O", "M", " ">>
S_where == <<" ", "W", "H", "E", "R", "E", " ">>
S_display == <<"f", "o", "r", "c", "e", ":", "o", "r", "g", ":", "d", "i", "s", "p", "l", "a", "y">>
S_tmpdir == <<"/", "t", "m", "p", "/">>
S_header == <<"\"", "I", "d", "\"">>

(***************************************************************************)
(* String helpers (JavaScript semantics)                                   *)
(***************************************************************************)
\* String.prototype.indexOf: 0-based index of the first occurrence, or -1
indexOf(s, sub) ==
    LET hits == {i \in 0..(Len(s) - Len(sub)) : SubSeq(s, i + 1, i + Len(sub)) = sub}
    IN  IF hits = {} THEN -1 ELSE CHOOSE i \in hits : \A j \in hits : i <= j

\* soql.replace(/"/g, "'")
replaceQuotes(s) ==
    [i \in 1..Len(s) |-> IF s[i] = "\"" THEN "'" ELSE s[i]]

\* concatenation of a sequence of strings separated by nothing (template literal)
RECURSIVE concat(_)
concat(parts) ==
    IF parts = <<>> THEN <<>> ELSE Head(parts) \o concat(Tail(parts))

Digit == <<"1", "2", "3", "4", "5", "6", "7", "8", "9">>

(***************************************************************************)
(* Inputs: what callers pass in and what the sfdx process can answer       *)
(***************************************************************************)
\* this._username, set by the constructor
username == <<"a", "@", "b">>

ObjNames == {<<"A", "c", "c">>}
FileNames == {<<"a", ".", "c">>, <<"d", "-", "u">>}
ExternalIds == {<<"I", "d">>}
Wheres ==
    { <<"N", "=", "\"", "x", "\"">>,
      <<"N", "=", "'", "p", "-", "u", " ", "q", "'">>,
      <<"N", "=", "'", "a">> \o S_json \o <<"'">> }
RawCommands ==
    { <<"f", "o", "r", "c", "e", ":", "o", "r", "g", ":", "l", "i", "s", "t">>,
      S_sfdx \o S_display \o S_json \o <<" ">> \o S_u \o username,
      S_display \o <<" ">> \o S_targetusername \o username }
JobIds == {<<"7", "5", "0">>, <<"7", "5", "1">>}
RecordIds == {<<"0", "0", "1">>, <<"0", "0", "2">>}

SeqsUpTo(S, n) == UNION {[1..k -> S] : k \in 0..n}

NoResult == [shape |-> "missing"]

Results(purpose) ==
    {NoResult} \cup
    CASE purpose = "submit" ->
           {[shape |-> "batches", batches |-> b] : b \in SeqsUpTo(JobIds, MaxBatches)}
      [] purpose = "status" ->
           {[shape |-> "summary", numberBatchesTotal |-> t,
             numberBatchesCompleted |-> c, numberBatchesFailed |-> f] :
                t \in 0..MaxBatches, c \in 0..MaxBatches, f \in 0..MaxBatches}
      [] purpose = "query" ->
           {[shape |-> "records", records |-> r] : r \in SeqsUpTo(RecordIds, MaxRecords)}
      [] purpose = "display" ->
           {[shape |-> "org", hasConnectedStatus |-> h, connectedStatus |-> v] :
                h \in BOOLEAN, v \in {"Connected", "Disconnected"}}
      [] OTHER -> {}

\* what one run of the external command can produce: a shell error, output
\* that is not JSON, or a JSON payload with or without a status field
Outcomes(purpose) ==
    {[kind |-> "err"], [kind |-> "garbage"]} \cup
    {[kind |-> "json", hasStatus |-> TRUE, status |-> 1, result |-> NoResult]} \cup
    {[kind |-> "json", hasStatus |-> FALSE, status |-> 0, result |-> r] :
        r \in Results(purpose)} \cup
    {[kind |-> "json", hasStatus |-> TRUE, status |-> v, result |-> r] :
        v \in {-1, 0}, r \in Results(purpose)}

(***************************************************************************)
(* State                                                                   *)
(***************************************************************************)
VARIABLES
    calls,   \* per public call: the closure state of its promise chain
    last     \* the outcome delivered by the most recent exec callback

vars == <<calls, last>>

\* a call slot before the caller has invoked anything
Idle ==
    [ op          |-> "none",     \* public method invoked
      objname     |-> <<>>,
      request     |-> "none",     \* promise returned by bulkRequest
      reason      |-> "none",     \* why bulkRequest's promise was rejected
      settleCalls |-> 0,          \* calls of bulkRequest's resolve and reject
      queryDelete |-> "none",     \* promise returned by bulkQueryAndDelete
      connected   |-> "none",     \* promise returned by ensureOrgConnected
      connectedReason |-> "none",
      jobId       |-> <<>>,       \* const jobId of bulkRequest's closure
      job         |-> "none",     \* the remote bulk job, as sfdx reports it
      batchId     |-> <<>>,       \* id of the batch (single-batch protocol)
      batchCount  |-> 0,          \* batch count logged with the job id
      timers      |-> 0,          \* pending setTimeout callbacks
      execs       |-> <<>>,       \* executeSFDXCommand invocations, in order
      csvPending  |-> FALSE,      \* tmp.file requested for the CSV
      records     |-> <<>>,       \* data.result.records of the Id query
      csvPath     |-> <<>>,       \* tmppath of the CSV file
      files       |-> {},         \* temp files that exist
      made        |-> 0,          \* temp files created so far
      uncaught    |-> 0 ]         \* exceptions and rejections nobody handles

Settle(p, v) == IF p = "pending" THEN v ELSE p

(***************************************************************************)
(* executeSFDXCommand                                                      *)
(***************************************************************************)
\* normalizedCommand looking for the flag as '--json ' with a trailing space
normalizedCommand_jsonTrailingSpace(cmd) ==
    LET c1 == IF indexOf(cmd, S_sfdx) # 0 THEN S_sfdx \o cmd ELSE cmd
        c2 == IF indexOf(cmd, SubSeq(S_json, 2, 7) \o <<" ">>) < 0
              THEN c1 \o S_json ELSE c1
    IN  IF indexOf(cmd, S_u) < 0 /\ indexOf(cmd, S_targetusername) < 0
        THEN c2 \o S_addTargetusername \o username
        ELSE c2

\* the command line built before the temp file is known
normalizedCommand(cmd) ==
    LET c1 == IF indexOf(cmd, S_sfdx) # 0 THEN S_sfdx \o cmd ELSE cmd
        c2 == IF indexOf(cmd, S_json) < 0 THEN c1 \o S_json ELSE c1
    IN  IF indexOf(cmd, S_u) < 0 /\ indexOf(cmd, S_targetusername) < 0
        THEN c2 \o S_addTargetusername \o username
        ELSE c2

\* the synchronous part: build the command, create the promise, ask tmp for
\* a file
executeSFDXCommand(s, cmd, purpose) ==
    [s EXCEPT !.execs = Append(@, [ purpose |-> purpose,
                                    cmd     |-> cmd,
                                    command |-> normalizedCommand(cmd),
                                    state   |-> "tmp",
                                    value   |-> "none",
                                    tmppath |-> <<>> ])]

\* name of the next temp file of call c
tmpName(c, s) == S_tmpdir \o <<Digit[c], Digit[s.made + 1]>>

\* tmp.file callback of executeSFDXCommand: redirect the output and spawn
tmpFileCallback(c, s, i) ==
    LET tmppath == tmpName(c, s)
    IN  [s EXCEPT !.made = @ + 1,
                  !.files = @ \cup {[path |-> tmppath, content |-> <<>>]},
                  !.execs[i].tmppath = tmppath,
                  !.execs[i].command = @ \o S_redirect \o tmppath,
                  !.execs[i].state = "running"]

\* execSettles trusting the exit code only, as the earlier revision did
execSettles_exitCodeOnly(out) ==
    IF out.kind = "err" THEN "rejected"
    ELSE IF out.kind = "garbage" THEN "threw"
    ELSE "resolved"

\* how the promise of an invocation ends for one outcome of the process
execSettles(out) ==
    IF out.kind = "err" THEN "rejected"
    ELSE IF out.kind = "garbage" THEN "threw"
    ELSE IF out.hasStatus /\ out.status > 0 THEN "rejected"
    ELSE "resolved"

\* what the promise is settled with: the err of the exec callback or the
\* parsed output
execValue(out) ==
    IF out.kind = "err" THEN "err"
    ELSE IF out.kind = "garbage" THEN "none"
    ELSE "output"

(***************************************************************************)
(* bulkRequest                                                             *)
(***************************************************************************)
\* a rejection or exception that no handler takes
unhandled(s) == [s EXCEPT !.uncaught = @ + 1]

\* reactions of bulkQueryAndDelete on bulkDelete's promise:
\* .then(resolve).catch(reject).then(callback)
afterDelete(s) ==
    [s EXCEPT !.queryDelete = Settle(@, s.request),
              !.files = {f \in @ : f.path # s.csvPath}]

settleRequest(s, v, why) ==
    IF s.request # "pending" THEN [s EXCEPT !.settleCalls = @ + 1]
    ELSE LET s1 == [s EXCEPT !.request = v, !.reason = why, !.settleCalls = @ + 1]
         IN  IF s.op = "bulkQueryAndDelete" THEN afterDelete(s1) ELSE s1

\* doWait arming two timers
doWait_twice(s) == [s EXCEPT !.timers = @ + 2]

doWait(s) == [s EXCEPT !.timers = @ + 1]

\* onSubmit taking the job id of the last batch descriptor
onSubmit_lastDescriptor(s, data) ==
    IF ~(data.hasStatus /\ data.status = 0)
    THEN settleRequest(s, "rejected", "submit status")
    ELSE IF data.result.shape # "batches" \/ data.result.batches = <<>>
    THEN unhandled(s)
    ELSE doWait([s EXCEPT !.jobId = data.result.batches[Len(data.result.batches)],
                          !.batchCount = Len(data.result.batches)])

\* onSubmit testing the status for truthiness: a payload without a status
\* field passes
onSubmit_truthyStatus(s, data) ==
    IF data.hasStatus /\ data.status # 0
    THEN settleRequest(s, "rejected", "submit status")
    ELSE IF data.result.shape # "batches" \/ data.result.batches = <<>>
    THEN unhandled(s)
    ELSE doWait([s EXCEPT !.jobId = data.result.batches[1],
                          !.batchCount = Len(data.result.batches)])

\* .then handler of the submit command
onSubmit(s, data) ==
    IF ~(data.hasStatus /\ data.status = 0)
    THEN settleRequest(s, "rejected", "submit status")
    ELSE IF data.result.shape # "batches" \/ data.result.batches = <<>>
    THEN unhandled(s)
    ELSE doWait([s EXCEPT !.jobId = data.result.batches[1],
                          !.batchCount = Len(data.result.batches)])

\* onStatus counting only the completed batches as done
onStatus_ignoreFailed(s, data) ==
    IF ~(data.hasStatus /\ data.status = 0)
    THEN settleRequest(s, "rejected", "status status")
    ELSE IF data.result.shape # "summary"
    THEN unhandled(s)
    ELSE IF data.result.numberBatchesCompleted # data.result.numberBatchesTotal
         THEN doWait(s)
         ELSE settleRequest(s, "resolved", "none")

\* onStatus giving up after the second status check
onStatus_maxAttempts(s, data) ==
    IF ~(data.hasStatus /\ data.status = 0)
    THEN settleRequest(s, "rejected", "status status")
    ELSE IF data.result.shape # "summary"
    THEN unhandled(s)
    ELSE LET totalBatches == data.result.numberBatchesTotal
             totalDone == data.result.numberBatchesCompleted
                          + data.result.numberBatchesFailed
             asked == Cardinality({i \in 1..Len(s.execs) :
                                     s.execs[i].purpose = "status"})
         IN  IF totalDone # totalBatches
             THEN IF asked >= 2
                  THEN settleRequest(s, "rejected", "timeout")
                  ELSE doWait(s)
             ELSE settleRequest(s, "resolved", "none")

\* onStatus rejecting without the return: the handler goes on to the counts
onStatus_noReturn(s, data) ==
    LET s1 == IF ~(data.hasStatus /\ data.status = 0)
              THEN settleRequest(s, "rejected", "status status")
              ELSE s
    IN  IF data.result.shape # "summary"
        THEN unhandled(s1)
        ELSE LET totalBatches == data.result.numberBatchesTotal
                 totalDone == data.result.numberBatchesCompleted
                              + data.result.numberBatchesFailed
             IN  IF totalDone # totalBatches
                 THEN doWait(s1)
                 ELSE settleRequest(s1, "resolved", "none")

\* onStatus that stops polling at a report of unfinished batches
onStatus_noRewait(s, data) ==
    IF ~(data.hasStatus /\ data.status = 0)
    THEN settleRequest(s, "rejected", "status status")
    ELSE IF data.result.shape # "summary"
    THEN unhandled(s)
    ELSE LET totalBatches == data.result.numberBatchesTotal
             totalDone == data.result.numberBatchesCompleted
                          + data.result.numberBatchesFailed
         IN  IF totalDone # totalBatches
             THEN s
             ELSE settleRequest(s, "resolved", "none")

\* .then handler of a status command
onStatus(s, data) ==
    IF ~(data.hasStatus /\ data.status = 0)
    THEN settleRequest(s, "rejected", "status status")
    ELSE IF data.result.shape # "summary"
    THEN unhandled(s)
    ELSE LET totalBatches == data.result.numberBatchesTotal
             totalDone == data.result.numberBatchesCompleted
                          + data.result.numberBatchesFailed
         IN  IF totalDone # totalBatches
             THEN doWait(s)
             ELSE settleRequest(s, "resolved", "none")

\* the timer callback of a repeating timer (setInterval)
timerCallback_interval(s) ==
    executeSFDXCommand(s, S_status \o s.jobId, "status")

\* the timer callback reading the job id from the client instance, where
\* the latest bulk request on the client has stored it
timerCallback_sharedJobId(s) ==
    LET known == {d \in DOMAIN calls : calls[d].jobId # <<>>}
        latest == CHOOSE d \in known : \A e \in known : e <= d
    IN  executeSFDXCommand([s EXCEPT !.timers = @ - 1],
                           S_status \o calls[latest].jobId, "status")

\* the setTimeout callback of doWait
timerCallback(s) ==
    executeSFDXCommand([s EXCEPT !.timers = @ - 1], S_status \o s.jobId, "status")

bulkRequest(s, cmd, objname) ==
    executeSFDXCommand([s EXCEPT !.request = "pending", !.objname = objname],
                       cmd, "submit")

bulkUpsert(s, objname, filename, externalId) ==
    bulkRequest(s, concat(<<S_upsert, objname, S_f, filename, S_i, externalId>>), objname)

bulkDelete(s, objname, filename) ==
    bulkRequest(s, concat(<<S_delete, objname, S_f, filename>>), objname)

(***************************************************************************)
(* soqlQuery, bulkQueryAndDelete, ensureOrgConnected                       *)
(***************************************************************************)
soqlQuery(s, soql, tooling, purpose) ==
    executeSFDXCommand(s, concat(<<S_query, replaceQuotes(soql), S_quote,
                                   IF tooling THEN S_t ELSE <<>> >>), purpose)

bulkQueryAndDelete(s, objname, where) ==
    soqlQuery([s EXCEPT !.queryDelete = "pending", !.objname = objname],
              concat(<<S_select, objname, S_where, where>>), FALSE, "query")

\* onQuery rejecting on an empty result without returning
onQuery_noReturn(s, data) ==
    IF data.result.shape # "records"
    THEN unhandled(s)
    ELSE [s EXCEPT !.queryDelete = IF Len(data.result.records) = 0
                                   THEN Settle(@, "rejected") ELSE @,
                   !.csvPending = TRUE, !.records = data.result.records]

\* .then handler of the Id query
onQuery(s, data) ==
    IF data.result.shape # "records"
    THEN unhandled(s)
    ELSE IF Len(data.result.records) = 0
    THEN [s EXCEPT !.queryDelete = Settle(@, "rejected")]
    ELSE [s EXCEPT !.csvPending = TRUE, !.records = data.result.records]

\* deleteIds.write(`${id}\n`) for every record, in order
RECURSIVE writeIds(_)
writeIds(ids) ==
    IF ids = <<>> THEN <<>> ELSE Head(ids) \o <<"\n">> \o writeIds(Tail(ids))

\* csvFileCallback writing every Id in double quotes
csvFileCallback_quoted(c, s) ==
    LET tmppath == tmpName(c, s)
        content == S_header \o <<"\n">>
                   \o writeIds([k \in 1..Len(s.records) |->
                                  S_quote \o s.records[k] \o S_quote])
    IN  bulkDelete([s EXCEPT !.csvPending = FALSE,
                             !.made = @ + 1,
                             !.csvPath = tmppath,
                             !.files = @ \cup {[path |-> tmppath, content |-> content]}],
                   s.objname, tmppath)

\* tmp.file callback of bulkQueryAndDelete: write the CSV, start the delete
csvFileCallback(c, s) ==
    LET tmppath == tmpName(c, s)
        content == S_header \o <<"\n">> \o writeIds(s.records)
    IN  bulkDelete([s EXCEPT !.csvPending = FALSE,
                             !.made = @ + 1,
                             !.csvPath = tmppath,
                             !.files = @ \cup {[path |-> tmppath, content |-> content]}],
                   s.objname, tmppath)

ensureOrgConnected(s) ==
    executeSFDXCommand([s EXCEPT !.connected = "pending"], S_display, "display")

\* onDisplay of the earlier revision: a missing connectedStatus is not
\* treated as connected
onDisplay_legacy(s, settled, data) ==
    IF settled = "rejected"
    THEN [s EXCEPT !.connected = Settle(@, "rejected"),
                   !.connectedReason = execValue(data)]
    ELSE IF data.result.shape # "org"
    THEN [s EXCEPT !.connected = Settle(@, "rejected"),
                   !.connectedReason = "TypeError"]
    ELSE IF ~data.result.hasConnectedStatus
    THEN [s EXCEPT !.connected = Settle(@, "rejected"),
                   !.connectedReason = "undefined"]
    ELSE IF data.result.connectedStatus # "Connected"
    THEN [s EXCEPT !.connected = Settle(@, "rejected"),
                   !.connectedReason = data.result.connectedStatus]
    ELSE [s EXCEPT !.connected = Settle(@, "resolved")]

\* .then and .catch handlers of ensureOrgConnected: a rejection of the
\* command, or a TypeError of the .then handler, reaches .catch
onDisplay(s, settled, data) ==
    IF settled = "rejected"
    THEN [s EXCEPT !.connected = Settle(@, "rejected"),
                   !.connectedReason = execValue(data)]
    ELSE IF data.result.shape # "org"
    THEN [s EXCEPT !.connected = Settle(@, "rejected"),
                   !.connectedReason = "TypeError"]
    ELSE IF data.result.hasConnectedStatus /\ data.result.connectedStatus # "Connected"
    THEN [s EXCEPT !.connected = Settle(@, "rejected"),
                   !.connectedReason = data.result.connectedStatus]
    ELSE [s EXCEPT !.connected = Settle(@, "resolved")]

\* exec callback of executeSFDXCommand and the reactions on its promise
execCallback(s, i, out) ==
    LET purpose == s.execs[i].purpose
        settled == execSettles(out)
        s1 == [s EXCEPT !.execs[i].state = settled,
                        !.execs[i].value = execValue(out)]
    IN  IF settled = "threw" THEN unhandled(s1)
        ELSE CASE purpose = "submit" ->
                    IF settled = "resolved" THEN onSubmit(s1, out) ELSE unhandled(s1)
               [] purpose = "status" ->
                    IF settled = "resolved" THEN onStatus(s1, out) ELSE unhandled(s1)
               [] purpose = "query" ->
                    IF settled = "resolved" THEN onQuery(s1, out) ELSE unhandled(s1)
               [] purpose = "display" -> onDisplay(s1, settled, out)
               [] OTHER -> s1

(***************************************************************************)
(* Actions                                                                 *)
(***************************************************************************)
NoOutcome == [call |-> 0, index |-> 0, purpose |-> "none", out |-> [kind |-> "none"]]

\* one public call on the client
Init ==
    /\ calls = [c \in {1} |-> Idle]
    /\ last = NoOutcome

Calls == DOMAIN calls

Polls(s) == Cardinality({i \in 1..Len(s.execs) : s.execs[i].purpose = "status"})

Invoke(c, s) ==
    /\ calls[c].op = "none"
    /\ calls' = [calls EXCEPT ![c] = s]
    /\ UNCHANGED last

BulkUpsert(c) ==
    \E objname \in ObjNames, filename \in FileNames, externalId \in ExternalIds :
        Invoke(c, bulkUpsert([calls[c] EXCEPT !.op = "bulkUpsert"],
                             objname, filename, externalId))

BulkDelete(c) ==
    \E objname \in ObjNames, filename \in FileNames :
        Invoke(c, bulkDelete([calls[c] EXCEPT !.op = "bulkDelete"], objname, filename))

\* the WHERE clause only changes the text of the query command, which
\* SoqlQuery explores; the delete chain is explored for one clause
BulkQueryAndDelete(c) ==
    \E objname \in ObjNames, where \in {<<"N", "=", "\"", "x", "\"">>} :
        Invoke(c, bulkQueryAndDelete([calls[c] EXCEPT !.op = "bulkQueryAndDelete"],
                                     objname, where))

SoqlQuery(c) ==
    \E objname \in ObjNames, where \in Wheres, tooling \in BOOLEAN :
        Invoke(c, soqlQuery([calls[c] EXCEPT !.op = "soqlQuery"],
                            concat(<<S_select, objname, S_where, where>>), tooling, "raw"))

EnsureOrgConnected(c) ==
    Invoke(c, ensureOrgConnected([calls[c] EXCEPT !.op = "ensureOrgConnected"]))

ExecuteSFDXCommand(c) ==
    \E cmd \in RawCommands :
        Invoke(c, executeSFDXCommand([calls[c] EXCEPT !.op = "executeSFDXCommand"],
                                     cmd, "raw"))

TmpFile(c) ==
    \E i \in 1..Len(calls[c].execs) :
        /\ calls[c].execs[i].state = "tmp"
        /\ calls' = [calls EXCEPT ![c] = tmpFileCallback(c, calls[c], i)]
        /\ UNCHANGED last

CsvFile(c) ==
    /\ calls[c].csvPending
    /\ calls' = [calls EXCEPT ![c] = csvFileCallback(c, calls[c])]
    /\ UNCHANGED last

Timer(c) ==
    /\ calls[c].timers > 0
    /\ Polls(calls[c]) < MaxPolls
    /\ calls' = [calls EXCEPT ![c] = timerCallback(calls[c])]
    /\ UNCHANGED last

\* what a command is issued for
Purposes == {"submit", "status", "query", "display", "raw"}

\* the exec callback of a running command, for the outcomes outs allows
ExecDoneOf(c, outs) ==
    \E i \in 1..Len(calls[c].execs) :
        /\ calls[c].execs[i].state = "running"
        /\ \E out \in outs[calls[c].execs[i].purpose] :
              /\ calls' = [calls EXCEPT ![c] = execCallback(calls[c], i, out)]
              /\ last' = [call |-> c, index |-> i,
                          purpose |-> calls[c].execs[i].purpose, out |-> out]

ExecDone(c) == ExecDoneOf(c, [p \in Purposes |-> Outcomes(p)])

Next ==
    \E c \in Calls :
        \/ BulkUpsert(c)
        \/ BulkDelete(c)
        \/ BulkQueryAndDelete(c)
        \/ SoqlQuery(c)
        \/ EnsureOrgConnected(c)
        \/ ExecuteSFDXCommand(c)
        \/ TmpFile(c)
        \/ CsvFile(c)
        \/ Timer(c)
        \/ ExecDone(c)

Spec == Init /\ [][Next]_vars

(***************************************************************************)
(* Two bulk requests interleaved on one client                             *)
(***************************************************************************)
\* answers of the bulk commands of a one-batch job: the submit fails or
\* returns a job id; a status check fails, or reports a job of one batch
PollOutcomes(purpose) ==
    {[kind |-> "err"]} \cup
    CASE purpose = "submit" ->
           {[kind |-> "json", hasStatus |-> TRUE, status |-> 0,
             result |-> [shape |-> "batches", batches |-> <<j>>]] : j \in JobIds}
      [] purpose = "status" ->
           {[kind |-> "json", hasStatus |-> TRUE, status |-> 1, result |-> NoResult]}
           \cup
           {[kind |-> "json", hasStatus |-> TRUE, status |-> 0,
             result |-> [shape |-> "summary", numberBatchesTotal |-> 1,
                         numberBatchesCompleted |-> c, numberBatchesFailed |-> f]] :
                c \in 0..1, f \in 0..1}
      [] OTHER -> {}

InitTwo ==
    /\ calls = [c \in {1, 2} |-> Idle]
    /\ last = NoOutcome

NextTwo ==
    \E c \in Calls :
        \/ BulkUpsert(c)
        \/ BulkDelete(c)
        \/ TmpFile(c)
        \/ Timer(c)
        \/ ExecDoneOf(c, [p \in Purposes |-> PollOutcomes(p)])

SpecTwo == InitTwo /\ [][NextTwo]_vars

(***************************************************************************)
(* A bulk request against a job that runs to its end                       *)
(***************************************************************************)
\* answers of the bulk commands when every command succeeds: the submit
\* returns its batches; a status check reports completed + failed equal to
\* the total exactly when the remote job has finished
LiveOutcomes(purpose, job) ==
    CASE purpose = "submit" ->
           {[kind |-> "json", hasStatus |-> TRUE, status |-> 0,
             result |-> [shape |-> "batches", batches |-> b]] :
                b \in SeqsUpTo(JobIds, MaxBatches) \ {<<>>}}
      [] purpose = "status" ->
           {o \in {[kind |-> "json", hasStatus |-> TRUE, status |-> 0,
                    result |-> [shape |-> "summary", numberBatchesTotal |-> t,
                                numberBatchesCompleted |-> c,
                                numberBatchesFailed |-> f]] :
                       t \in 1..MaxBatches, c \in 0..MaxBatches, f \in 0..MaxBatches} :
              LET done == o.result.numberBatchesCompleted + o.result.numberBatchesFailed
              IN  /\ done <= o.result.numberBatchesTotal
                  /\ done = o.result.numberBatchesTotal <=> job = "done"}
      [] OTHER -> {}

\* the exec callback of a running command; the submit creates the remote job
LiveExecDone(c) ==
    \E i \in 1..Len(calls[c].execs) :
        /\ calls[c].execs[i].state = "running"
        /\ \E out \in LiveOutcomes(calls[c].execs[i].purpose, calls[c].job) :
              /\ calls' = [calls EXCEPT ![c] =
                             [execCallback(calls[c], i, out) EXCEPT
                                 !.job = IF @ = "none" THEN "running" ELSE @]]
              /\ last' = [call |-> c, index |-> i,
                          purpose |-> calls[c].execs[i].purpose, out |-> out]

\* the remote job finishes its last batch
JobFinishes(c) ==
    /\ calls[c].job = "running"
    /\ calls' = [calls EXCEPT ![c].job = "done"]
    /\ UNCHANGED last

\* the setTimeout callback of doWait; the last check the bound leaves is one
\* that finds the job finished
LiveTimer(c) ==
    /\ calls[c].timers > 0
    /\ Polls(calls[c]) < MaxPolls
    /\ calls[c].job = "done" \/ Polls(calls[c]) < MaxPolls - 1
    /\ calls' = [calls EXCEPT ![c] = timerCallback(calls[c])]
    /\ UNCHANGED last

NextLive ==
    \E c \in Calls :
        \/ BulkUpsert(c)
        \/ BulkDelete(c)
        \/ TmpFile(c)
        \/ LiveTimer(c)
        \/ LiveExecDone(c)
        \/ JobFinishes(c)

\* timers expire, temp files get created, commands end, the job finishes
SpecLive ==
    /\ Init
    /\ [][NextLive]_vars
    /\ \A c \in {1} :
          /\ WF_vars(TmpFile(c))
          /\ WF_vars(LiveTimer(c))
          /\ WF_vars(LiveExecDone(c))
          /\ WF_vars(JobFinishes(c))

(***************************************************************************)
(* The earlier revision: single-batch protocol                             *)
(***************************************************************************)
L_upsert == <<"s", "f", "d", "x", " ", "f", "o", "r", "c", "e", ":", "d", "a", "t", "a", ":", "b", "u", "l", "k", ":", "u", "p", "s", "e", "r", "t", " ", "-", "u", " ">>
L_delete == <<"s", "f", "d", "x", " ", "f", "o", "r", "c", "e", ":", "d", "a", "t", "a", ":", "b", "u", "l", "k", ":", "d", "e", "l", "e", "t", "e", " ", "-", "u", " ">>
L_s == <<" ", "-", "s", " ">>
L_status == <<"s", "f", "d", "x", " ", "f", "o", "r", "c", "e", ":", "d", "a", "t", "a", ":", "b", "u", "l", "k", ":", "s", "t", "a", "t", "u", "s", " ", "-", "u", " ">>
L_batchid == <<" ", "-", "-", "b", "a", "t", "c", "h", "i", "d", " ">>
L_jobid == <<" ", "-", "-", "j", "o", "b", "i", "d", " ">>

BatchIds == {<<"7", "5", "1", "a">>}
BatchStates == {"Queued", "InProgress", "Completed", "Failed"}

\* answers of the bulk commands in the single-batch protocol: result is an
\* array of batch descriptors
LegacyOutcomes(purpose) ==
    {[kind |-> "err"], [kind |-> "garbage"]} \cup
    {[kind |-> "json", hasStatus |-> TRUE, status |-> v, result |-> r] :
        v \in {0, 1},
        r \in {NoResult} \cup
              {[shape |-> "batches",
                batches |-> <<[id |-> b, jobId |-> j, state |-> st]>>] :
                   b \in BatchIds, j \in JobIds, st \in BatchStates}}

\* executeSFDXCommand: only --json is added
legacyExecuteSFDXCommand(s, cmd, purpose) ==
    [s EXCEPT !.execs = Append(@, [ purpose |-> purpose,
                                    cmd     |-> cmd,
                                    command |-> IF indexOf(cmd, S_json) < 0
                                                THEN cmd \o S_json ELSE cmd,
                                    state   |-> "tmp",
                                    value   |-> "none",
                                    tmppath |-> <<>> ])]

legacyBulkRequest(s, cmd, objname) ==
    legacyExecuteSFDXCommand([s EXCEPT !.request = "pending", !.objname = objname],
                             cmd, "submit")

legacyBulkUpsert(s, objname, filename, externalId) ==
    legacyBulkRequest(s, concat(<<L_upsert, username, L_s, objname, S_f, filename,
                                  S_i, externalId>>), objname)

legacyBulkDelete(s, objname, filename) ==
    legacyBulkRequest(s, concat(<<L_delete, username, L_s, objname, S_f, filename>>),
                      objname)

\* .then handler of the submit command
legacyOnSubmit(s, data) ==
    IF data.result.shape # "batches" \/ data.result.batches = <<>>
    THEN unhandled(s)
    ELSE doWait([s EXCEPT !.batchId = data.result.batches[1].id,
                          !.jobId = data.result.batches[1].jobId])

\* legacyOnStatus without the returns: doWait runs in every branch
legacyOnStatus_fallThrough(s, data) ==
    IF data.result.shape # "batches" \/ data.result.batches = <<>>
    THEN unhandled(s)
    ELSE LET state == data.result.batches[1].state
         IN  IF state = "Completed" THEN doWait(settleRequest(s, "resolved", "none"))
             ELSE IF state = "Failed" THEN doWait(settleRequest(s, "rejected", "none"))
             ELSE doWait(s)

\* .then handler of a status command
legacyOnStatus(s, data) ==
    IF data.result.shape # "batches" \/ data.result.batches = <<>>
    THEN unhandled(s)
    ELSE LET state == data.result.batches[1].state
         IN  IF state = "Completed" THEN settleRequest(s, "resolved", "none")
             ELSE IF state = "Failed" THEN settleRequest(s, "rejected", "none")
             ELSE doWait(s)

\* the setTimeout callback of doWait
legacyTimerCallback(s) ==
    legacyExecuteSFDXCommand([s EXCEPT !.timers = @ - 1],
                             concat(<<L_status, username, L_batchid, s.batchId,
                                      L_jobid, s.jobId>>), "status")

\* how the promise of one command settles: the exit code alone decides
legacyExecSettles(out) ==
    IF out.kind = "err" THEN "rejected"
    ELSE IF out.kind = "garbage" THEN "threw"
    ELSE "resolved"

\* exec callback; the temp file is removed once the output is parsed
legacyExecCallback(s, i, out) ==
    LET purpose == s.execs[i].purpose
        settled == legacyExecSettles(out)
        s1 == [s EXCEPT !.execs[i].state = settled,
                        !.execs[i].value = execValue(out),
                        !.files = IF settled = "resolved"
                                  THEN {f \in @ : f.path # s.execs[i].tmppath}
                                  ELSE @]
    IN  IF settled = "threw" THEN unhandled(s1)
        ELSE IF settled = "rejected" THEN unhandled(s1)
        ELSE IF purpose = "submit" THEN legacyOnSubmit(s1, out)
        ELSE legacyOnStatus(s1, out)

LegacyBulkUpsert(c) ==
    \E objname \in ObjNames, filename \in FileNames, externalId \in ExternalIds :
        Invoke(c, legacyBulkUpsert([calls[c] EXCEPT !.op = "bulkUpsert"],
                                   objname, filename, externalId))

LegacyBulkDelete(c) ==
    \E objname \in ObjNames, filename \in FileNames :
        Invoke(c, legacyBulkDelete([calls[c] EXCEPT !.op = "bulkDelete"],
                                   objname, filename))

LegacyTimer(c) ==
    /\ calls[c].timers > 0
    /\ Polls(calls[c]) < MaxPolls
    /\ calls' = [calls EXCEPT ![c] = legacyTimerCallback(calls[c])]
    /\ UNCHANGED last

LegacyExecDone(c) ==
    \E i \in 1..Len(calls[c].execs) :
        /\ calls[c].execs[i].state = "running"
        /\ \E out \in LegacyOutcomes(calls[c].execs[i].purpose) :
              /\ calls' = [calls EXCEPT ![c] = legacyExecCallback(calls[c], i, out)]
              /\ last' = [call |-> c, index |-> i,
                          purpose |-> calls[c].execs[i].purpose, out |-> out]

NextLegacy ==
    \E c \in Calls :
        \/ LegacyBulkUpsert(c)
        \/ LegacyBulkDelete(c)
        \/ TmpFile(c)
        \/ LegacyTimer(c)
        \/ LegacyExecDone(c)

SpecLegacy == Init /\ [][NextLegacy]_vars

(***************************************************************************)
(* executeSFDXCommand on arbitrary command text                            *)
(***************************************************************************)
MaxFragments == 3

\* pieces of command text, among them everything the normalization looks for
Fragments ==
    { S_sfdx, S_json, <<" ">> \o S_u, S_targetusername,
      <<"f", "o", "r", "c", "e", ":", "x">>, username }

\* the command texts made of at most MaxFragments pieces
Commands ==
    {concat(fs) : fs \in SeqsUpTo(Fragments, MaxFragments)}

ExecuteAnyCommand(c) ==
    \E cmd \in Commands :
        Invoke(c, executeSFDXCommand([calls[c] EXCEPT !.op = "executeSFDXCommand"],
                                     cmd, "raw"))

NextCmd ==
    \E c \in Calls :
        \/ ExecuteAnyCommand(c)
        \/ TmpFile(c)

SpecCmd == Init /\ [][NextCmd]_vars

(***************************************************************************)
(* Vocabulary of the properties                                            *)
(***************************************************************************)
Execs(c) == {i \in 1..Len(calls[c].execs) : TRUE}

Outstanding(c, purpose) ==
    {i \in Execs(c) : /\ calls[c].execs[i].purpose = purpose
                      /\ calls[c].execs[i].state \in {"tmp", "running"}}

\* the payload of the latest exec callback, when it is a JSON payload of
\* the given purpose
LastJson(purpose) == last.purpose = purpose /\ last.out.kind = "json"

LastStatusZero ==
    /\ LastJson("status")
    /\ last.out.hasStatus /\ last.out.status = 0
    /\ last.out.result.shape = "summary"

LastDone ==
    last.out.result.numberBatchesCompleted + last.out.result.numberBatchesFailed
        = last.out.result.numberBatchesTotal

\* this step is the exec callback of an invocation of the given purpose
Responded(c, purpose) ==
    \E i \in Execs(c) :
        /\ calls[c].execs[i].purpose = purpose
        /\ calls[c].execs[i].state = "running"
        /\ calls'[c].execs[i].state # "running"

\* the temp file holding the CSV of record Ids
CsvFiles(c) ==
    {f \in calls[c].files : calls[c].csvPath # <<>> /\ f.path = calls[c].csvPath}

\* the shell splits the command line into words at the spaces outside
\* double quotes: the positions of those spaces, with both ends of the line
Separators(s) ==
    {0, Len(s) + 1} \cup
    {i \in 1..Len(s) :
        /\ s[i] = " "
        /\ Cardinality({j \in 1..(i - 1) : s[j] = "\""}) % 2 = 0}

NotQuote(ch) == ch # "\""

\* the words of the command line, quotes removed, by their start position
ShellWords(s) ==
    LET seps == Separators(s)
    IN  {[at |-> a + 1, text |-> SelectSeq(SubSeq(s, a + 1, b - 1), NotQuote)] :
            <<a, b>> \in {p \in seps \X seps :
                            /\ p[1] + 1 < p[2]
                            /\ \A k \in seps : ~(p[1] < k /\ k < p[2])}}

\* the words that select the identity, -u or --targetusername
IdentityFlags(commandLine) ==
    {w \in ShellWords(commandLine) :
        w.text \in {<<"-", "u">>, SubSeq(S_targetusername, 1, 16)}}

(***************************************************************************)
(* Properties                                                              *)
(***************************************************************************)
\* C1: whenever a status-check invocation of executeSFDXCommand fails (shell
\* error or payload status greater than zero), the promise returned by
\* bulkRequest is rejected and no further status check is scheduled.
C1_StatusFailureRejects ==
    \A c \in Calls : \A i \in Execs(c) :
        (calls[c].execs[i].purpose = "status" /\ calls[c].execs[i].state = "rejected")
            => /\ calls[c].request = "rejected"
               /\ calls[c].timers = 0
               /\ Outstanding(c, "status") = {}

SubmitFailed(c) ==
    \E i \in Execs(c) :
        calls[c].execs[i].purpose = "submit" /\ calls[c].execs[i].state = "rejected"

SubmitMalformed(c) ==
    /\ last.call = c
    /\ LastJson("submit")
    /\ execSettles(last.out) = "resolved"
    /\ \/ last.out.result.shape # "batches"
       \/ last.out.result.batches = <<>>

\* C2: if the submit invocation fails, or the submit result body is not a
\* non-empty array of batch descriptors, the promise returned by bulkRequest
\* is rejected and no status check is ever issued for that call.
C2_SubmitFailureRejects ==
    \A c \in Calls :
        (SubmitFailed(c) \/ SubmitMalformed(c))
            => /\ calls[c].request = "rejected"
               /\ calls[c].timers = 0
               /\ Polls(calls[c]) = 0

\* C3: at every status response with payload status 0, the promise is
\* resolved at that response if and only if numberBatchesCompleted +
\* numberBatchesFailed equals numberBatchesTotal, whatever the number of
\* failed batches; for every other combination the promise stays pending and
\* the job stays in polling (a timer for the next check is armed).
C3_ResolvedIffAllDone ==
    [][\A c \in Calls :
          (Responded(c, "status") /\ LastStatusZero')
              => /\ calls[c].request = "pending"
                 /\ (calls'[c].request = "resolved") <=> LastDone'
                 /\ ~LastDone' => /\ calls'[c].request = "pending"
                                  /\ calls'[c].timers > 0]_vars

C3_Witness ==
    \E c \in Calls :
        /\ last.call = c
        /\ LastStatusZero
        /\ last.out.result.numberBatchesTotal > 0
        /\ last.out.result.numberBatchesFailed = last.out.result.numberBatchesTotal
        /\ last.out.result.numberBatchesCompleted = 0
        /\ calls[c].request = "resolved"

LastBelowTotal ==
    last.out.result.numberBatchesCompleted + last.out.result.numberBatchesFailed
        < last.out.result.numberBatchesTotal

\* C4: when a status response reports completed + failed less than total,
\* bulkRequest arms exactly one new timer for the next status check, issues
\* no command at that step, and neither resolves nor rejects its promise.
C4_ExactlyOneMoreCheck ==
    [][\A c \in Calls :
          (Responded(c, "status") /\ LastStatusZero' /\ LastBelowTotal')
              => /\ calls'[c].timers = calls[c].timers + 1
                 /\ calls'[c].timers = 1
                 /\ calls'[c].execs = [calls[c].execs EXCEPT ![last'.index].state = "resolved",
                                                             ![last'.index].value = "output"]
                 /\ calls[c].request = "pending"
                 /\ calls'[c].request = "pending"]_vars

C4_Witness ==
    \E c \in Calls :
        /\ last.call = c
        /\ LastStatusZero
        /\ last.out.result.numberBatchesTotal = 2
        /\ last.out.result.numberBatchesCompleted = 1
        /\ last.out.result.numberBatchesFailed = 0
        /\ calls[c].timers = 1
        /\ calls[c].request = "pending"

\* a status command is being issued at this step
StatusIssued(c) ==
    /\ Len(calls'[c].execs) > Len(calls[c].execs)
    /\ calls'[c].execs[Len(calls'[c].execs)].purpose = "status"

SubmitReturned(c) ==
    \E j \in Execs(c) :
        calls[c].execs[j].purpose = "submit" /\ calls[c].execs[j].state = "resolved"

\* C5: within one bulkRequest call no status command is issued before the
\* submit command has returned its result, every status command is issued by
\* one expiry of the timer, and at every moment at most one timer or status
\* command of the job is outstanding.
C5_PollsSerialized ==
    /\ [](\A c \in Calls :
             /\ calls[c].timers + Cardinality(Outstanding(c, "status")) <= 1
             /\ (calls[c].timers > 0 \/ Polls(calls[c]) > 0) => SubmitReturned(c))
    /\ [][\A c \in Calls :
             StatusIssued(c) => /\ calls[c].timers = 1
                                /\ calls'[c].timers = 0
                                /\ Len(calls'[c].execs) = Len(calls[c].execs) + 1
                                /\ Outstanding(c, "status") = {}]_vars

C5_Witness ==
    \E c \in Calls :
        /\ Polls(calls[c]) = 2
        /\ Cardinality(Outstanding(c, "status")) = 1
        /\ calls[c].timers = 0
        /\ calls[c].execs[Len(calls[c].execs) - 1].purpose = "status"
        /\ calls[c].execs[Len(calls[c].execs) - 1].state = "resolved"

\* C6: in bulkQueryAndDelete, when the Id query fails (shell error or payload
\* status greater than zero) the promise returned by bulkQueryAndDelete is
\* rejected rather than left pending, and no delete is invoked.
C6_QueryFailureRejects ==
    \A c \in Calls :
        (\E i \in Execs(c) : /\ calls[c].execs[i].purpose = "query"
                             /\ calls[c].execs[i].state = "rejected")
            => /\ calls[c].queryDelete = "rejected"
               /\ \A j \in Execs(c) : calls[c].execs[j].purpose # "submit"

LastQueryEmpty(c) ==
    /\ last.call = c
    /\ LastJson("query")
    /\ execSettles(last.out) = "resolved"
    /\ last.out.result.shape = "records"
    /\ last.out.result.records = <<>>

\* C7: when the Id query of bulkQueryAndDelete returns zero records, the
\* returned promise is rejected, bulkDelete is never invoked and no CSV temp
\* file is created.
C7_EmptyQueryRejects ==
    \A c \in Calls :
        LastQueryEmpty(c)
            => /\ calls[c].queryDelete = "rejected"
               /\ calls[c].request = "none"
               /\ \A j \in Execs(c) : calls[c].execs[j].purpose # "submit"
               /\ ~calls[c].csvPending
               /\ CsvFiles(c) = {}
               /\ calls[c].made = 1

C7_Witness ==
    \E c \in Calls :
        /\ LastQueryEmpty(c)
        /\ calls[c].op = "bulkQueryAndDelete"
        /\ calls[c].queryDelete = "rejected"

\* the bulk delete of bulkQueryAndDelete has finished: its job resolved or
\* was rejected, its submission failed, or a status check of it failed
DeleteFinished(c) ==
    /\ calls[c].op = "bulkQueryAndDelete"
    /\ calls[c].request # "none"
    /\ \/ calls[c].request \in {"resolved", "rejected"}
       \/ \E i \in Execs(c) : /\ calls[c].execs[i].purpose \in {"submit", "status"}
                              /\ calls[c].execs[i].state = "rejected"

\* C8: in bulkQueryAndDelete the CSV temp file, once created, is removed
\* after the bulk delete has finished, in every outcome of the delete: job
\* resolved, submission failed, or a status check failed.
C8_CsvRemovedAfterDelete ==
    \A c \in Calls : DeleteFinished(c) => CsvFiles(c) = {}

\* C9: for every executeSFDXCommand invocation the temp file that receives
\* the command's output is deleted by the time the invocation's promise
\* settles.
C9_OutputFileDeleted ==
    \A c \in Calls : \A i \in Execs(c) :
        calls[c].execs[i].state \in {"resolved", "rejected"}
            => ~\E f \in calls[c].files : f.path = calls[c].execs[i].tmppath

\* C10: the command line handed to the shell specifies the identity exactly
\* once, for every command passed to executeSFDXCommand, including those
\* built from caller-supplied object names, file names and query text.
C10_IdentityExactlyOnce ==
    \A c \in Calls : \A i \in Execs(c) :
        calls[c].execs[i].state # "tmp"
            => Cardinality(IdentityFlags(calls[c].execs[i].command)) = 1

\* the words that ask for structured output
JsonFlags(commandLine) ==
    {w \in ShellWords(commandLine) : w.text = SubSeq(S_json, 2, 7)}

\* C11: the command line handed to the shell contains the flag --json
\* exactly once: one is appended when the input command lacks the flag, and
\* nothing is added when the input command already contains it.
C11_JsonExactlyOnce ==
    \A c \in Calls : \A i \in Execs(c) :
        calls[c].execs[i].state # "tmp"
            => Cardinality(JsonFlags(calls[c].execs[i].command))
                 = IF JsonFlags(calls[c].execs[i].cmd) = {}
                   THEN 1
                   ELSE Cardinality(JsonFlags(calls[c].execs[i].cmd))

\* this step is the exec callback of invocation i of call c
Completed(c, i) ==
    /\ i \in Execs(c)
    /\ calls[c].execs[i].state = "running"
    /\ calls'[c].execs[i].state # "running"

\* C12: the outcome of executeSFDXCommand is determined by the shell result
\* and the parsed payload: a shell error rejects with that error; otherwise
\* a payload whose status field is greater than zero rejects with the full
\* payload; otherwise (status 0, or no status field) the promise resolves
\* with the full payload.
C12_ExecOutcome ==
    [][\A c \in Calls : \A i \in Execs(c) :
          Completed(c, i)
              => LET out == last'.out
                     e == calls'[c].execs[i]
                 IN  /\ last'.call = c /\ last'.index = i
                     /\ out.kind = "err"
                          => e.state = "rejected" /\ e.value = "err"
                     /\ (out.kind = "json" /\ out.hasStatus /\ out.status > 0)
                          => e.state = "rejected" /\ e.value = "output"
                     /\ (out.kind = "json" /\ ~(out.hasStatus /\ out.status > 0))
                          => e.state = "resolved" /\ e.value = "output"]_vars

C12_Witness ==
    \E c \in Calls : \E i \in Execs(c) :
        /\ last.call = c /\ last.index = i
        /\ last.out.kind = "json"
        /\ last.out.hasStatus /\ last.out.status = 1
        /\ calls[c].execs[i].state = "rejected"
        /\ calls[c].execs[i].value = "output"

\* C13: when the command exits successfully but its output is not JSON, the
\* promise returned by executeSFDXCommand is rejected: it is not left
\* pending and the failure is not raised outside the promise.
C13_GarbageRejects ==
    \A c \in Calls : \A i \in Execs(c) :
        (last.call = c /\ last.index = i /\ last.out.kind = "garbage")
            => /\ calls[c].execs[i].state = "rejected"
               /\ calls[c].uncaught = 0

\* the latest exec callback delivered an accepted submit answer with at
\* least one batch descriptor
LastSubmitBatches ==
    /\ LastJson("submit")
    /\ last.out.hasStatus /\ last.out.status = 0
    /\ last.out.result.shape = "batches"
    /\ last.out.result.batches # <<>>

StatusCommands(c) == {i \in Execs(c) : calls[c].execs[i].purpose = "status"}

\* C14: for a submit result body of N >= 1 batch descriptors the job id
\* kept is the jobId of the first descriptor and the recorded batch count is
\* N; the job id never changes afterwards and every status command carries
\* it.
C14_FirstJobId ==
    /\ [][\A c \in Calls :
             /\ (Responded(c, "submit") /\ LastSubmitBatches')
                   => /\ calls'[c].jobId = last'.out.result.batches[1]
                      /\ calls'[c].batchCount = Len(last'.out.result.batches)
             /\ calls[c].jobId # <<>> => calls'[c].jobId = calls[c].jobId]_vars
    /\ [](\A c \in Calls : \A i \in StatusCommands(c) :
             /\ calls[c].jobId # <<>>
             /\ calls[c].execs[i].cmd = S_status \o calls[c].jobId)

C14_Witness ==
    \E c \in Calls :
        /\ last.call = c
        /\ LastSubmitBatches
        /\ Len(last.out.result.batches) = 2
        /\ last.out.result.batches[1] # last.out.result.batches[2]
        /\ calls[c].batchCount = 2
        /\ StatusCommands(c) # {}
        /\ \A i \in StatusCommands(c) :
              calls[c].execs[i].cmd = S_status \o last.out.result.batches[1]

\* C15: ensureOrgConnected resolves when the org-display result has
\* connectedStatus 'Connected' or no connectedStatus field; for any other
\* connectedStatus it rejects with that value as the reason; when the
\* underlying command fails it rejects with the underlying error.
C15_OrgConnected ==
    [][\A c \in Calls : \A i \in Execs(c) :
          (Completed(c, i) /\ calls[c].execs[i].purpose = "display")
              => LET out == last'.out
                     e == calls'[c].execs[i]
                 IN  /\ calls[c].connected = "pending"
                     /\ (e.state = "resolved" /\ out.result.shape = "org")
                          => IF out.result.hasConnectedStatus
                                /\ out.result.connectedStatus # "Connected"
                             THEN /\ calls'[c].connected = "rejected"
                                  /\ calls'[c].connectedReason
                                        = out.result.connectedStatus
                             ELSE calls'[c].connected = "resolved"
                     /\ e.state = "rejected"
                          => /\ calls'[c].connected = "rejected"
                             /\ calls'[c].connectedReason = e.value]_vars

C15_Witness ==
    \E c \in Calls :
        /\ last.call = c
        /\ LastJson("display")
        /\ last.out.result.shape = "org"
        /\ ~last.out.result.hasConnectedStatus
        /\ calls[c].connected = "resolved"

\* the lines of a text file: the pieces that end in a newline, and what
\* follows the last newline if anything does
LinesOf(content) ==
    LET ends == {p \in 1..Len(content) : content[p] = "\n"}
            \cup (IF content # <<>> /\ content[Len(content)] # "\n"
                  THEN {Len(content) + 1} ELSE {})
        nth(k) == CHOOSE p \in ends : Cardinality({q \in ends : q < p}) = k - 1
    IN  [k \in 1..Cardinality(ends) |->
            SubSeq(content, (IF k = 1 THEN 0 ELSE nth(k - 1)) + 1, nth(k) - 1)]

LastQueryRecords ==
    /\ LastJson("query")
    /\ execSettles(last.out) = "resolved"
    /\ last.out.result.shape = "records"
    /\ last.out.result.records # <<>>

\* the delete commands of call c, by the file they name
DeleteCommands(c) ==
    {i \in Execs(c) : calls[c].execs[i].purpose = "submit"}

\* C16: for a query result with records r1..rN (N >= 1) the CSV file handed
\* to bulkDelete consists of exactly N+1 lines: the header "Id" in double
\* quotes, then the bare Id of each record, one per line, in query order.
C16_CsvContent ==
    /\ [][\A c \in Calls :
             (Responded(c, "query") /\ LastQueryRecords')
                 => calls'[c].records = last'.out.result.records]_vars
    /\ [](\A c \in Calls :
             calls[c].op = "bulkQueryAndDelete"
                 => /\ \A f \in CsvFiles(c) :
                          /\ LinesOf(f.content) = <<S_header>> \o calls[c].records
                          /\ Len(LinesOf(f.content)) = Len(calls[c].records) + 1
                    /\ \A i \in DeleteCommands(c) :
                          calls[c].execs[i].cmd
                              = concat(<<S_delete, calls[c].objname, S_f,
                                         calls[c].csvPath>>))
    /\ [][\A c \in Calls :
             (calls[c].op = "bulkQueryAndDelete"
              /\ DeleteCommands(c) = {} /\ DeleteCommands(c)' # {})
                 => CsvFiles(c)' # {}]_vars

C16_Witness ==
    \E c \in Calls : \E f \in CsvFiles(c) :
        /\ Len(calls[c].records) = 2
        /\ calls[c].records[1] # calls[c].records[2]
        /\ LinesOf(f.content)
              = <<S_header, calls[c].records[1], calls[c].records[2]>>
        /\ DeleteCommands(c) # {}

\* the job of call c is being polled: a timer or a status command is out
Polling(c) == calls[c].timers > 0 \/ Outstanding(c, "status") # {}

\* C17: there is no bound on the number of polls: polling ends only at a
\* status response that reports completed + failed equal to total or at a
\* status check that fails, and after any number of consecutive
\* non-terminal responses a further check is scheduled and the promise is
\* still pending.
C17_PollsUnbounded ==
    [][\A c \in Calls :
          /\ (Polling(c) /\ ~Polling(c)')
                => /\ Responded(c, "status")
                   /\ ~(LastStatusZero' /\ ~LastDone')
          /\ (Responded(c, "status") /\ LastStatusZero' /\ ~LastDone')
                => /\ Polling(c)'
                   /\ calls'[c].request = "pending"]_vars

C17_Witness ==
    \E c \in Calls :
        /\ last.call = c
        /\ LastStatusZero /\ ~LastDone
        /\ Cardinality(StatusCommands(c)) = MaxPolls
        /\ \A i \in StatusCommands(c) : calls[c].execs[i].state = "resolved"
        /\ calls[c].timers = 1
        /\ calls[c].request = "pending"

\* C18: when two bulkRequest calls run interleaved on one client, each
\* call's status commands carry only the job id returned by its own submit,
\* and a response of one job (terminal, non-terminal or failing) never
\* resolves, rejects or stops the polling of the other: each promise is
\* settled only at its own submit and status responses.
C18_JobsIndependent ==
    /\ [](\A c \in Calls : \A i \in StatusCommands(c) :
             calls[c].execs[i].cmd = S_status \o calls[c].jobId)
    /\ [][\A c \in Calls :
             /\ (Responded(c, "submit") /\ LastSubmitBatches')
                   => calls'[c].jobId = last'.out.result.batches[1]
             /\ (\E i \in Execs(c) : Completed(c, i))
                   => \A d \in Calls \ {c} :
                         /\ calls'[d].request = calls[d].request
                         /\ calls'[d].jobId = calls[d].jobId
                         /\ calls'[d].timers = calls[d].timers
                         /\ calls'[d].execs = calls[d].execs
             /\ calls'[c].request # calls[c].request
                   => \/ calls[c].request = "none"
                      \/ \E i \in Execs(c) : Completed(c, i)]_vars

C18_Witness ==
    /\ Calls = {1, 2}
    /\ calls[1].jobId # <<>> /\ calls[2].jobId # <<>>
    /\ calls[1].jobId # calls[2].jobId
    /\ calls[1].request = "resolved"
    /\ calls[2].request = "pending"
    /\ Polling(2)
    /\ \E i \in StatusCommands(2) : calls[2].execs[i].state = "resolved"
    /\ last.call = 1

StartsWith(s, prefix) ==
    Len(s) >= Len(prefix) /\ SubSeq(s, 1, Len(prefix)) = prefix

\* C19: command normalization is idempotent: the normalized command always
\* begins with 'sfdx ', the prefix is added only when the input does not
\* begin with it, and normalizing an already normalized command returns it
\* unchanged.
C19_NormalizationIdempotent ==
    \A c \in Calls : \A i \in Execs(c) :
        calls[c].execs[i].state = "tmp"
            => LET cmd == calls[c].execs[i].cmd
                   command == calls[c].execs[i].command
               IN  /\ StartsWith(command, S_sfdx)
                   /\ IF StartsWith(cmd, S_sfdx)
                      THEN StartsWith(command, cmd)
                      ELSE StartsWith(command, S_sfdx \o cmd)
                   /\ normalizedCommand(command) = command

C19_Witness ==
    \E c \in Calls : \E i \in Execs(c) :
        /\ calls[c].execs[i].state = "tmp"
        /\ StartsWith(calls[c].execs[i].cmd, S_sfdx)
        /\ JsonFlags(calls[c].execs[i].cmd) # {}
        /\ IdentityFlags(calls[c].execs[i].cmd) # {}
        /\ calls[c].execs[i].command = calls[c].execs[i].cmd

\* the latest exec callback delivered the state of the batch
LastBatchState ==
    /\ LastJson("status")
    /\ last.out.result.shape = "batches"
    /\ last.out.result.batches # <<>>

\* C20: in the single-batch protocol, at every status response state
\* 'Completed' resolves the bulkRequest promise, 'Failed' rejects it with no
\* detail, and any other state leaves it pending and arms exactly one timer
\* for the next status check; after 'Completed' or 'Failed' no further
\* status check is scheduled.
C20_LegacyStates ==
    /\ [][\A c \in Calls :
             (Responded(c, "status") /\ LastBatchState')
                 => LET state == last'.out.result.batches[1].state
                    IN  /\ calls[c].request = "pending"
                        /\ state = "Completed"
                             => calls'[c].request = "resolved" /\ ~Polling(c)'
                        /\ state = "Failed"
                             => /\ calls'[c].request = "rejected"
                                /\ calls'[c].reason = "none"
                                /\ ~Polling(c)'
                        /\ state \notin {"Completed", "Failed"}
                             => /\ calls'[c].request = "pending"
                                /\ calls'[c].timers = calls[c].timers + 1
                                /\ calls'[c].timers = 1
                                /\ Outstanding(c, "status")' = {}]_vars
    /\ [](\A c \in Calls :
             calls[c].request \in {"resolved", "rejected"} => ~Polling(c))

C20_Witness ==
    \E c \in Calls :
        /\ last.call = c
        /\ LastBatchState
        /\ last.out.result.batches[1].state = "Failed"
        /\ calls[c].request = "rejected"
        /\ calls[c].reason = "none"
        /\ calls[c].batchId # <<>>

\* C21: the promise returned by bulkRequest is settled at most once: resolve
\* and reject are called at most once in total, a settled promise keeps its
\* state and reason, and once it is resolved or rejected no timer is pending
\* and no status command is outstanding or ever issued again for the job.
C21_SettledOnce ==
    /\ [](\A c \in Calls :
             /\ calls[c].settleCalls <= 1
             /\ calls[c].request \in {"resolved", "rejected"}
                  => calls[c].settleCalls = 1 /\ ~Polling(c))
    /\ [][\A c \in Calls :
             calls[c].request \in {"resolved", "rejected"}
                 => /\ calls'[c].request = calls[c].request
                    /\ calls'[c].reason = calls[c].reason
                    /\ calls'[c].timers = 0
                    /\ ~StatusIssued(c)]_vars

C21_Witness ==
    \E c \in Calls :
        /\ calls[c].request = "rejected"
        /\ calls[c].reason = "status status"
        /\ calls[c].settleCalls = 1
        /\ Polls(calls[c]) = MaxPolls
        /\ last.call = c /\ LastJson("status")
        /\ last.out.hasStatus /\ last.out.status = -1
        /\ last.out.result.shape = "summary"

\* C22: when the submit succeeds, every status check succeeds and the remote
\* job finishes and reports completed + failed equal to total from then on,
\* then with timers expiring and commands ending the promise returned by
\* bulkRequest is eventually resolved.
C22_EventuallyResolved ==
    \A c \in {1} : (calls[c].request = "pending") ~> (calls[c].request = "resolved")

C22_Witness ==
    \E c \in Calls :
        /\ calls[c].request = "resolved"
        /\ calls[c].job = "done"
        /\ Polls(calls[c]) = MaxPolls
        /\ last.call = c /\ LastStatusZero /\ LastDone

\* the latest exec callback resolved executeSFDXCommand's promise with a
\* payload whose status field is exactly 0
LastAccepted == last.out.hasStatus /\ last.out.status = 0

\* C23: bulkRequest accepts a submit or status payload only when its status
\* field is exactly 0: a payload that executeSFDXCommand resolved with
\* although it has no status field or a negative status rejects the promise
\* of bulkRequest with the non-zero status error of that step and leaves no
\* timer and no status command behind; a payload with status 0 never
\* rejects it.
C23_OnlyStatusZeroAccepted ==
    [][\A c \in Calls : \A i \in Execs(c) :
          (/\ Completed(c, i)
           /\ calls[c].execs[i].purpose \in {"submit", "status"}
           /\ calls'[c].execs[i].state = "resolved")
              => /\ calls[c].request = "pending"
                 /\ IF LastAccepted'
                    THEN calls'[c].request # "rejected"
                    ELSE /\ calls'[c].request = "rejected"
                         /\ calls'[c].reason =
                               IF calls[c].execs[i].purpose = "submit"
                               THEN "submit status" ELSE "status status"
                         /\ ~Polling(c)'
                         /\ calls'[c].jobId = calls[c].jobId]_vars

C23_Witness ==
    \E c \in Calls :
        /\ last.call = c
        /\ LastJson("submit")
        /\ ~last.out.hasStatus
        /\ last.out.result.shape = "batches"
        /\ last.out.result.batches # <<>>
        /\ calls[c].execs[last.index].state = "resolved"
        /\ calls[c].request = "rejected"
        /\ calls[c].reason = "submit status"
        /\ calls[c].timers = 0

=============================================================================
